---- MODULE Spec2Model ----
(***************************************************************************)
(* Model of the Bangalore-News RAG chatbot: the lazily created RAGPipeline *)
(* singleton (display_app/views.py), its staged initialisation, retrieval  *)
(* and answer generation (rag_core/rag_pipeline.py), and the persona       *)
(* keyword filter.  Text is modelled as sequences of one-character strings *)
(* so that lower-casing and substring search are computed, not assumed.    *)
(***************************************************************************)
EXTENDS Integers, Sequences, FiniteSets, TLC

(* ------------------------------ bounds -------------------------------- *)
\* number of requests served in one behaviour of Spec
MaxRequests == 2
\* largest top_k tried by SpecRetrieve
MaxK == 4
\* largest number of vectors in an index tried by SpecRetrieve
MaxVectors == 3
\* longest chunk list tried by SpecFilter
MaxChunks == 3
\* largest top_n tried by SpecFilter
MaxTopN == 3

(* ------------------------------- text --------------------------------- *)
UpperChars ==
    << "A", "B", "C", "D", "E", "F", "G", "H", "I", "J", "K", "L", "M",
       "N", "O", "P", "Q", "R", "S", "T", "U", "V", "W", "X", "Y", "Z" >>

LowerChars ==
    << "a", "b", "c", "d", "e", "f", "g", "h", "i", "j", "k", "l", "m",
       "n", "o", "p", "q", "r", "s", "t", "u", "v", "w", "x", "y", "z" >>

\* the lower-case letter of each upper-case letter
LowerOf ==
    [ c \in { UpperChars[i] : i \in 1..Len(UpperChars) } |->
        LowerChars[CHOOSE i \in 1..Len(UpperChars) : UpperChars[i] = c] ]

\* str.lower() on one character
LowerChar(c) == IF c \in DOMAIN LowerOf THEN LowerOf[c] ELSE c

\* str.lower()
Lower(s) == [i \in 1..Len(s) |-> LowerChar(s[i])]

\* Python's  kw in text  on strings
Contains(text, kw) ==
    \E i \in 1..(Len(text) - Len(kw) + 1) : SubSeq(text, i, i + Len(kw) - 1) = kw

\* str.strip(): drop leading and trailing blanks
RECURSIVE LStrip(_)
LStrip(s) == IF s # <<>> /\ Head(s) = " " THEN LStrip(Tail(s)) ELSE s

RECURSIVE RStrip(_)
RStrip(s) ==
    IF s # <<>> /\ s[Len(s)] = " " THEN RStrip(SubSeq(s, 1, Len(s) - 1)) ELSE s

Strip(s) == RStrip(LStrip(s))

\* Python slice  xs[:n]  for n >= 0
Take(xs, n) == SubSeq(xs, 1, IF n < Len(xs) THEN n ELSE Len(xs))

\* passage texts used as CSV cells
TextBus   == "BMTC Bus"
TextRain  == "Rain"
TextLake  == "Lake"
TextMetro == "Metro"
Texts == { TextBus, TextRain, TextLake, TextMetro }

\* the characters of a passage text
Chars(text) ==
    CASE text = TextBus   -> << "B", "M", "T", "C", " ", "B", "u", "s" >>
      [] text = TextRain  -> << "R", "a", "i", "n" >>
      [] text = TextLake  -> << "L", "a", "k", "e" >>
      [] text = TextMetro -> << "M", "e", "t", "r", "o" >>

(* --------------------------- persona registry -------------------------- *)
Keywords_general_news ==
    <<  >>

Keywords_education_news ==
    << <<"s", "c", "h", "o", "o", "l">>,
       <<"c", "o", "l", "l", "e", "g", "e">>,
       <<"u", "n", "i", "v", "e", "r", "s", "i", "t", "y">>,
       <<"s", "t", "u", "d", "e", "n", "t">>,
       <<"e", "x", "a", "m">>,
       <<"a", "d", "m", "i", "s", "s", "i", "o", "n">>,
       <<"s", "y", "l", "l", "a", "b", "u", "s">>,
       <<"e", "d", "u", "c", "a", "t", "i", "o", "n", " ", "p", "o", "l", "i", "c", "y">>,
       <<"c", "a", "m", "p", "u", "s">>,
       <<"s", "s", "l", "c">>,
       <<"p", "u", "c">>,
       <<"r", "e", "s", "u", "l", "t", "s">>,
       <<"a", "c", "a", "d", "e", "m", "i", "c">>,
       <<"b", "o", "a", "r", "d">>,
       <<"i", "n", "s", "t", "i", "t", "u", "t", "i", "o", "n">>,
       <<"d", "e", "g", "r", "e", "e">>,
       <<"s", "e", "m", "e", "s", "t", "e", "r">>,
       <<"c", "u", "r", "r", "i", "c", "u", "l", "u", "m">>,
       <<"f", "a", "c", "u", "l", "t", "y">>,
       <<"r", "e", "s", "e", "a", "r", "c", "h">> >>

Keywords_bangalore_weather ==
    << <<"w", "e", "a", "t", "h", "e", "r">>,
       <<"r", "a", "i", "n">>,
       <<"r", "a", "i", "n", "f", "a", "l", "l">>,
       <<"t", "e", "m", "p", "e", "r", "a", "t", "u", "r", "e">>,
       <<"h", "e", "a", "t", "w", "a", "v", "e">>,
       <<"m", "o", "n", "s", "o", "o", "n">>,
       <<"i", "m", "d">>,
       <<"f", "o", "r", "e", "c", "a", "s", "t">>,
       <<"c", "l", "i", "m", "a", "t", "e">>,
       <<"h", "u", "m", "i", "d", "i", "t", "y">>,
       <<"c", "y", "c", "l", "o", "n", "e">>,
       <<"s", "t", "o", "r", "m">>,
       <<"f", "l", "o", "o", "d">>,
       <<"d", "r", "y", " ", "s", "p", "e", "l", "l">> >>

Keywords_local_safety ==
    << <<"p", "o", "l", "i", "c", "e">>,
       <<"a", "r", "r", "e", "s", "t">>,
       <<"c", "r", "i", "m", "e">>,
       <<"t", "h", "e", "f", "t">>,
       <<"a", "c", "c", "i", "d", "e", "n", "t">>,
       <<"s", "a", "f", "e", "t", "y">>,
       <<"a", "l", "e", "r", "t">>,
       <<"f", "i", "r">>,
       <<"a", "s", "s", "a", "u", "l", "t">>,
       <<"s", "c", "a", "m">>,
       <<"f", "r", "a", "u", "d">>,
       <<"e", "m", "e", "r", "g", "e", "n", "c", "y">>,
       <<"c", "o", "m", "p", "l", "a", "i", "n", "t">>,
       <<"v", "i", "c", "t", "i", "m">>,
       <<"i", "n", "v", "e", "s", "t", "i", "g", "a", "t", "i", "o", "n">>,
       <<"s", "e", "c", "u", "r", "i", "t", "y">>,
       <<"p", "a", "t", "r", "o", "l">>,
       <<"i", "n", "c", "i", "d", "e", "n", "t">> >>

Keywords_community_corner ==
    << <<"c", "o", "m", "m", "u", "n", "i", "t", "y">>,
       <<"e", "v", "e", "n", "t">>,
       <<"f", "e", "s", "t", "i", "v", "a", "l">>,
       <<"c", "e", "l", "e", "b", "r", "a", "t", "i", "o", "n">>,
       <<"i", "n", "i", "t", "i", "a", "t", "i", "v", "e">>,
       <<"l", "o", "c", "a", "l">>,
       <<"g", "r", "o", "u", "p">>,
       <<"o", "r", "g", "a", "n", "i", "z", "a", "t", "i", "o", "n">>,
       <<"v", "o", "l", "u", "n", "t", "e", "e", "r">>,
       <<"f", "a", "i", "r">>,
       <<"g", "a", "t", "h", "e", "r", "i", "n", "g">>,
       <<"a", "c", "t", "i", "v", "i", "t", "y">>,
       <<"w", "o", "r", "k", "s", "h", "o", "p">>,
       <<"p", "u", "b", "l", "i", "c">> >>

Keywords_public_transport ==
    << <<"m", "e", "t", "r", "o">>,
       <<"n", "a", "m", "m", "a", " ", "m", "e", "t", "r", "o">>,
       <<"b", "m", "r", "c", "l">>,
       <<"b", "m", "t", "c">>,
       <<"b", "u", "s">>,
       <<"p", "u", "b", "l", "i", "c", " ", "t", "r", "a", "n", "s", "p", "o", "r", "t">>,
       <<"c", "o", "m", "m", "u", "t", "e">>,
       <<"c", "o", "m", "m", "u", "t", "e", "r", "s">>,
       <<"f", "a", "r", "e">>,
       <<"r", "o", "u", "t", "e">>,
       <<"s", "t", "a", "t", "i", "o", "n">>,
       <<"t", "r", "a", "n", "s", "p", "o", "r", "t", "a", "t", "i", "o", "n">>,
       <<"s", "e", "r", "v", "i", "c", "e">>,
       <<"f", "e", "e", "d", "e", "r", " ", "s", "e", "r", "v", "i", "c", "e">>,
       <<"l", "a", "s", "t", " ", "m", "i", "l", "e">>,
       <<"d", "e", "p", "o", "t">>,
       <<"c", "o", "r", "r", "i", "d", "o", "r">>,
       <<"l", "i", "n", "e">> >>


AgentIds ==
    { "general_news", "education_news", "bangalore_weather", "local_safety",
      "community_corner", "public_transport" }

\* AGENT_CONFIGS; the system prompt text is abstracted to a tag per persona
AGENT_CONFIGS ==
    [ general_news      |-> [ system_prompt |-> "prompt:general_news",
                              keywords_for_filtering |-> Keywords_general_news ],
      education_news    |-> [ system_prompt |-> "prompt:education_news",
                              keywords_for_filtering |-> Keywords_education_news ],
      bangalore_weather |-> [ system_prompt |-> "prompt:bangalore_weather",
                              keywords_for_filtering |-> Keywords_bangalore_weather ],
      local_safety      |-> [ system_prompt |-> "prompt:local_safety",
                              keywords_for_filtering |-> Keywords_local_safety ],
      community_corner  |-> [ system_prompt |-> "prompt:community_corner",
                              keywords_for_filtering |-> Keywords_community_corner ],
      public_transport  |-> [ system_prompt |-> "prompt:public_transport",
                              keywords_for_filtering |-> Keywords_public_transport ] ]

\* AGENT_CONFIGS.get(agent_id) is not None
HasAgent(agent_id) == agent_id \in AgentIds

\* keywords = [keyword.lower() for keyword in agent_config[...]], per persona
LoweredKeywords ==
    [ agent_id \in AgentIds |->
        [ j \in 1..Len(AGENT_CONFIGS[agent_id].keywords_for_filtering) |->
            Lower(AGENT_CONFIGS[agent_id].keywords_for_filtering[j]) ] ]

\* MatchesAny with the chunk text left as it is (text_lower = chunk_text)
MatchesAnyCaseSensitive(text, keywords) ==
    \E j \in 1..Len(keywords) : Contains(Chars(text), keywords[j])

\* any(keyword in text_lower for keyword in keywords)
MatchesAny(text, keywords) ==
    LET text_lower == Lower(Chars(text))
    IN  \E j \in 1..Len(keywords) : Contains(text_lower, keywords[j])

\* the  for chunk in all_chunks  loop of get_specialized_context_for_agent
RECURSIVE FilterLoop(_, _, _)
FilterLoop(all_chunks, keywords, filtered_chunks) ==
    IF all_chunks = <<>> THEN filtered_chunks
    ELSE LET chunk == Head(all_chunks)
         IN  FilterLoop(Tail(all_chunks), keywords,
                        IF MatchesAny(chunk.chunk_text, keywords)
                        THEN Append(filtered_chunks, chunk)
                        ELSE filtered_chunks)

get_specialized_context_for_agent(agent_id, all_chunks, top_n) ==
    IF ~HasAgent(agent_id) \/ AGENT_CONFIGS[agent_id].keywords_for_filtering = <<>>
    THEN Take(all_chunks, top_n)
    ELSE Take(FilterLoop(all_chunks, LoweredKeywords[agent_id], <<>>), top_n)

(* ------------------------------- corpus -------------------------------- *)
\* a null cell of the DOC_DET column
NaN == "<NaN>"

\* states of the file at csv_file_path
CsvMissing  == [ kind |-> "missing",  rows |-> <<>> ]
CsvEmpty    == [ kind |-> "empty",    rows |-> <<>> ]
CsvNoColumn == [ kind |-> "nocolumn", rows |-> <<>> ]
CsvRows(rows) == [ kind |-> "ok", rows |-> rows ]

CsvFiles ==
    { CsvMissing, CsvEmpty, CsvNoColumn,
      CsvRows(<< NaN >>),
      CsvRows(<< TextLake, NaN, TextRain >>),
      CsvRows(<< TextLake, TextBus, TextRain, TextMetro >>) }

\* df.dropna(subset=['content']).reset_index(drop=True)
DropNa(rows) == SelectSeq(rows, LAMBDA cell : cell # NaN)

\* RAGPipeline._load_data; the empty sequence is the empty DataFrame
LoadData(file) == IF file.kind = "ok" THEN DropNa(file.rows) ELSE <<>>

(* -------------------------------- index -------------------------------- *)
\* self.model.encode([text])[0]: an opaque vector, a function of the text
Embed(text) == [ vec_of |-> text ]

\* self.model.encode(self.data['content'].tolist())
EncodeAll(data) == [ i \in 1..Len(data) |-> Embed(data[i]) ]

\* self.index is None
NoIndex == [ kind |-> "none", vecs |-> <<>> ]

\* faiss.IndexFlatL2(dimension) followed by index.add(embeddings)
BuildIndex(embeddings) == [ kind |-> "index", vecs |-> embeddings ]

\* states of the file at index_file_path
FileAbsent  == [ kind |-> "absent",  vecs |-> <<>> ]
FileCorrupt == [ kind |-> "corrupt", vecs |-> <<>> ]

\* the file faiss.write_index(index, path) leaves behind
WriteIndex(index) == [ kind |-> "valid", vecs |-> index.vecs ]

\* faiss.read_index(path) of a readable file
ReadIndex(file) == [ kind |-> "index", vecs |-> file.vecs ]

\* an index persisted by an earlier run over a different corpus
StaleVecs == EncodeAll(<< TextRain, TextLake, TextBus >>)

\* the index files a process can find at start-up, given the CSV file: none,
\* an unreadable one, one saved over another corpus, one saved over this one
IndexFiles(file) ==
    { FileAbsent, [ kind |-> "valid", vecs |-> StaleVecs ] }
    \cup (IF LoadData(file) # <<>>
          THEN { FileCorrupt, WriteIndex(BuildIndex(EncodeAll(LoadData(file)))) }
          ELSE {})

Min(a, b) == IF a < b THEN a ELSE b

\* the label rows index.search(query_embedding, top_k) can return: the
\* min(top_k, ntotal) nearest positions, each once, in distance order (which
\* depends on the query), padded with -1 up to top_k labels
SearchLabels(index, top_k) ==
    LET ntotal == Len(index.vecs)
        m      == Min(top_k, ntotal)
        Orders == { f \in [1..m -> 0..(ntotal - 1)] :
                       \A i, j \in 1..m : i # j => f[i] # f[j] }
    IN  { [ i \in 1..top_k |-> IF i <= m THEN f[i] ELSE -1 ] : f \in Orders }

(* ------------------------------ pipeline ------------------------------- *)
\* the fields __init__ sets before _initialize_components; id 0 is None
NewPipeline(id) == [ id |-> id, data |-> <<>>, model |-> FALSE, index |-> NoIndex ]

NoPipeline == NewPipeline(0)

\* the test of __init__ and of retrieve_relevant_chunks, negated
Ready(p) == p.index # NoIndex /\ p.data # <<>> /\ p.model

\* RetrieveLoop with the bounds test written  0 < index < len(self.data)
RECURSIVE RetrieveLoopSkipFirst(_, _, _, _)
RetrieveLoopSkipFirst(I, i, data, relevant_chunks) ==
    IF i > Len(I) THEN relevant_chunks
    ELSE LET index == I[i]
         IN  RetrieveLoopSkipFirst(I, i + 1, data,
                                   IF 0 < index /\ index < Len(data)
                                   THEN Append(relevant_chunks,
                                               [ chunk_text |-> data[index + 1] ])
                                   ELSE relevant_chunks)

\* the  for i in range(len(I[0]))  loop of retrieve_relevant_chunks
RECURSIVE RetrieveLoop(_, _, _, _)
RetrieveLoop(I, i, data, relevant_chunks) ==
    IF i > Len(I) THEN relevant_chunks
    ELSE LET index == I[i]
         IN  RetrieveLoop(I, i + 1, data,
                          IF 0 <= index /\ index < Len(data)
                          THEN Append(relevant_chunks,
                                      [ chunk_text |-> data[index + 1] ])
                          ELSE relevant_chunks)

\* what the encode and search calls of retrieve_relevant_chunks can do
SearchOutcomes(p, top_k) ==
    { [ raised |-> TRUE, I |-> <<>> ] }
    \cup { [ raised |-> FALSE, I |-> I ] : I \in SearchLabels(p.index, top_k) }

\* the label row lists the positions from the last to the first
Descending(I) == \A i, j \in 1..Len(I) : (i < j /\ I[j] >= 0) => I[i] > I[j]

\* the outcomes of encode and search for the one non-blank query home_view
\* is given: search is a function of the query and the index, so there is
\* one ranking, here the one that reverses the corpus order
HomeOutcomes(p, top_k) ==
    { o \in SearchOutcomes(p, top_k) : o.raised \/ Descending(o.I) }

retrieve_relevant_chunks(p, outcome) ==
    IF ~Ready(p) THEN <<>>
    ELSE IF outcome.raised THEN <<>>
    ELSE RetrieveLoop(outcome.I, 1, p.data, <<>>)

(* --------------------------- answer generator -------------------------- *)
KeyNone        == "<None>"
KeyPlaceholder == "YOUR_OPENAI_API_KEY_HERE"
ApiKeys == { KeyNone, "", KeyPlaceholder, "sk-test" }

\* not openai_api_key or openai_api_key == 'YOUR_OPENAI_API_KEY_HERE'
KeyMissing(key) == key = KeyNone \/ key = "" \/ key = KeyPlaceholder

AnswerNone   == "<None>"
Fallback     == "I'm sorry, I couldn't find relevant information in the news for your query, even with the selected agent's focus."
ConfigError  == "Error: OpenAI API key is not configured. Please set OPENAI_API_KEY in settings.py or as an environment variable."
LlmError     == "An error occurred while generating the answer"
LlmAnswer    == "<answer text>"

\* what client.chat.completions.create and the read of its reply can do
LlmOutcomes == { "ok", "raises" }

\* system_message_content is None
PromptNone == "<None>"

\* generate_answer_with_llm calling the LLM a second time when a call fails
generate_answer_with_llm_retry(key, retrieved_chunks_info, system_message_content, outcome) ==
    IF KeyMissing(key)
    THEN [ answer |-> ConfigError, calls |-> 0, raised |-> FALSE ]
    ELSE IF system_message_content = PromptNone
    THEN [ answer |-> AnswerNone, calls |-> 0, raised |-> TRUE ]
    ELSE IF outcome = "ok"
    THEN [ answer |-> LlmAnswer, calls |-> 1, raised |-> FALSE ]
    ELSE [ answer |-> LlmError, calls |-> 2, raised |-> FALSE ]

\* generate_answer_with_llm: the answer, the number of LLM calls made, and
\* whether an exception left the function (the slice of the system prompt
\* on line 164 is outside the try block)
generate_answer_with_llm(key, retrieved_chunks_info, system_message_content, outcome) ==
    IF KeyMissing(key)
    THEN [ answer |-> ConfigError, calls |-> 0, raised |-> FALSE ]
    ELSE IF system_message_content = PromptNone
    THEN [ answer |-> AnswerNone, calls |-> 0, raised |-> TRUE ]
    ELSE IF outcome = "ok"
    THEN [ answer |-> LlmAnswer, calls |-> 1, raised |-> FALSE ]
    ELSE [ answer |-> LlmError, calls |-> 1, raised |-> FALSE ]

(* ------------------------------- requests ------------------------------ *)
Threads == { "t1", "t2" }

\* request.POST.get('agent_persona', ...) finds no such field
NotPosted == "<not posted>"

PostedAgents == { NotPosted, "general_news", "public_transport", "sports" }

\* the requests home_view is given: a GET carries no form fields
Requests ==
    { [ method |-> "GET", agent_persona |-> NotPosted, user_query |-> <<>> ],
      [ method |-> "POST", agent_persona |-> NotPosted, user_query |-> << " " >> ] }
    \cup { [ method |-> "POST", agent_persona |-> agent,
             user_query |-> << "b", "u", "s", " " >> ] : agent \in PostedAgents }


\* top_k of the call in home_view
TopK == 7

\* top_n of the call in home_view, and of the slice for general_news
TopN == 3

\* locals of home_view before the request is read
NoLocals ==
    [ rag_pipeline |-> NoPipeline, method |-> "GET",
      selected_agent_id |-> "general_news", user_query |-> <<>>,
      retrieved_chunks |-> <<>>, specialized_context |-> <<>>,
      system_prompt |-> PromptNone, answer |-> AnswerNone, llm_calls |-> 0,
      llm_outcome |-> "none", status |-> "running" ]

VARIABLES
    csv,            \* the file at settings.CSV_FILE_PATH
    index_file,     \* the file at settings.FAISS_INDEX_PATH
    api_key,        \* settings.OPENAI_API_KEY
    rag_pipeline,   \* the module global _rag_pipeline
    pc,             \* where each request thread is
    self,           \* the RAGPipeline each thread is constructing
    loc,            \* the locals of home_view of each thread
    log,            \* the stages each thread's constructor has run
    nConstructed,   \* RAGPipeline objects constructed so far
    nRequests,      \* requests received so far
    \* inputs and result of one call of get_specialized_context_for_agent
    fAgent, fChunks, fTopN, fResult, fDone,
    \* inputs and result of one call of retrieve_relevant_chunks
    rPipe, rK, rOutcome, rResult, rDone

mainVars ==
    << csv, index_file, api_key, rag_pipeline, pc, self, loc, log,
       nConstructed, nRequests >>
filterVars == << fAgent, fChunks, fTopN, fResult, fDone >>
retrVars == << rPipe, rK, rOutcome, rResult, rDone >>
vars == << mainVars, filterVars, retrVars >>

InitPcs == { "init_data", "init_model", "init_exists", "init_read",
             "init_build", "init_return" }
IdlePcs == { "idle", "done", "raised_init", "raised_view" }

FilterIdle ==
    /\ fAgent = "general_news" /\ fChunks = <<>> /\ fTopN = 0
    /\ fResult = <<>> /\ fDone = FALSE

RetrIdle ==
    /\ rPipe = NoPipeline /\ rK = 1 /\ rOutcome = [ raised |-> TRUE, I |-> <<>> ]
    /\ rResult = <<>> /\ rDone = FALSE

MainIdle ==
    /\ csv = CsvMissing /\ index_file = FileAbsent /\ api_key = KeyNone
    /\ rag_pipeline = NoPipeline
    /\ pc = [ t \in Threads |-> "idle" ]
    /\ self = [ t \in Threads |-> NoPipeline ]
    /\ loc = [ t \in Threads |-> NoLocals ]
    /\ log = [ t \in Threads |-> <<>> ]
    /\ nConstructed = 0 /\ nRequests = 0

Init ==
    /\ csv \in CsvFiles
    /\ index_file \in IndexFiles(csv)
    /\ api_key \in ApiKeys
    /\ rag_pipeline = NoPipeline
    /\ pc = [ t \in Threads |-> "idle" ]
    /\ self = [ t \in Threads |-> NoPipeline ]
    /\ loc = [ t \in Threads |-> NoLocals ]
    /\ log = [ t \in Threads |-> <<>> ]
    /\ nConstructed = 0 /\ nRequests = 0
    /\ FilterIdle /\ RetrIdle

\* a request arrives; home_view calls load_rag_components_once, which finds
\* _rag_pipeline is None and calls RAGPipeline(csv_path, index_path)
EnterConstruct(t) ==
    /\ pc[t] \in IdlePcs /\ nRequests < MaxRequests
    /\ rag_pipeline = NoPipeline
    /\ nRequests' = nRequests + 1
    /\ nConstructed' = nConstructed + 1
    /\ self' = [ self EXCEPT ![t] = NewPipeline(nConstructed + 1) ]
    /\ log' = [ log EXCEPT ![t] = <<>> ]
    /\ loc' = [ loc EXCEPT ![t] = NoLocals ]
    /\ pc' = [ pc EXCEPT ![t] = "init_data" ]
    /\ UNCHANGED << csv, index_file, api_key, rag_pipeline,
                    filterVars, retrVars >>

\* a request arrives; load_rag_components_once finds the singleton set and
\* returns it
EnterReuse(t) ==
    /\ pc[t] \in IdlePcs /\ nRequests < MaxRequests
    /\ rag_pipeline # NoPipeline
    /\ nRequests' = nRequests + 1
    /\ loc' = [ loc EXCEPT ![t] = [ NoLocals EXCEPT !.rag_pipeline = rag_pipeline ] ]
    /\ pc' = [ pc EXCEPT ![t] = "view" ]
    /\ UNCHANGED << csv, index_file, api_key, rag_pipeline, self, log, nConstructed,
                    filterVars, retrVars >>

\* LoadDataStage without the return that follows an empty DataFrame
LoadDataStageNoReturn(t) ==
    /\ pc[t] = "init_data"
    /\ LET data == LoadData(csv)
       IN  /\ self' = [ self EXCEPT ![t].data = data ]
           /\ log' = [ log EXCEPT ![t] =
                         Append(@, IF data = <<>> THEN "corpus_failed" ELSE "corpus") ]
           /\ pc' = [ pc EXCEPT ![t] = "init_model" ]
    /\ UNCHANGED << csv, index_file, api_key, rag_pipeline, loc, nConstructed, nRequests,
                    filterVars, retrVars >>

\* _initialize_components, stage 1
LoadDataStage(t) ==
    /\ pc[t] = "init_data"
    /\ LET data == LoadData(csv)
       IN  /\ self' = [ self EXCEPT ![t].data = data ]
           /\ log' = [ log EXCEPT ![t] =
                         Append(@, IF data = <<>> THEN "corpus_failed" ELSE "corpus") ]
           /\ pc' = [ pc EXCEPT ![t] =
                         IF data = <<>> THEN "init_return" ELSE "init_model" ]
    /\ UNCHANGED << csv, index_file, api_key, rag_pipeline, loc, nConstructed, nRequests,
                    filterVars, retrVars >>

\* _initialize_components, stage 2: _load_embedding_model returns the model,
\* or None when SentenceTransformer(...) raises
LoadModelStage(t) ==
    /\ pc[t] = "init_model"
    /\ \E loaded \in BOOLEAN :
          /\ self' = [ self EXCEPT ![t].model = loaded ]
          /\ log' = [ log EXCEPT ![t] =
                        Append(@, IF loaded THEN "model" ELSE "model_failed") ]
          /\ pc' = [ pc EXCEPT ![t] = IF loaded THEN "init_exists" ELSE "init_return" ]
    /\ UNCHANGED << csv, index_file, api_key, rag_pipeline, loc, nConstructed, nRequests,
                    filterVars, retrVars >>

\* _load_faiss_index: os.path.exists(self.index_file_path)
IndexExists(t) ==
    /\ pc[t] = "init_exists"
    /\ log' = [ log EXCEPT ![t] =
                  Append(@, IF index_file.kind = "absent" THEN "absent" ELSE "exists") ]
    /\ pc' = [ pc EXCEPT ![t] =
                  IF index_file.kind = "absent" THEN "init_build" ELSE "init_read" ]
    /\ UNCHANGED << csv, index_file, api_key, rag_pipeline, self, loc,
                    nConstructed, nRequests,
                    filterVars, retrVars >>

\* _load_faiss_index: faiss.read_index, and the except clause when it raises
IndexRead(t) ==
    /\ pc[t] = "init_read"
    /\ IF index_file.kind = "valid"
       THEN /\ self' = [ self EXCEPT ![t].index = ReadIndex(index_file) ]
            /\ log' = [ log EXCEPT ![t] = Append(@, "read") ]
            /\ pc' = [ pc EXCEPT ![t] = "init_return" ]
       ELSE /\ self' = self
            /\ log' = [ log EXCEPT ![t] = Append(@, "read_failed") ]
            /\ pc' = [ pc EXCEPT ![t] = "init_build" ]
    /\ UNCHANGED << csv, index_file, api_key, rag_pipeline, loc, nConstructed, nRequests,
                    filterVars, retrVars >>

\* IndexBuild with _create_faiss_index never calling faiss.write_index
IndexBuildNoSave(t) ==
    /\ pc[t] = "init_build"
    /\ IF self[t].data # <<>> /\ self[t].model
       THEN \E outcome \in { "ok", "encode_raises", "write_raises" } :
               CASE outcome = "ok" ->
                      LET index == BuildIndex(EncodeAll(self[t].data))
                      IN  /\ self' = [ self EXCEPT ![t].index = index ]
                          /\ index_file' = index_file
                          /\ log' = [ log EXCEPT ![t] = @ \o << "build", "write" >> ]
                          /\ pc' = [ pc EXCEPT ![t] = "init_return" ]
                 [] outcome = "encode_raises" ->
                      /\ UNCHANGED << self, index_file >>
                      /\ log' = [ log EXCEPT ![t] = Append(@, "build_failed") ]
                      /\ pc' = [ pc EXCEPT ![t] = "raised_init" ]
                 [] outcome = "write_raises" ->
                      /\ self' = self
                      /\ index_file' \in { index_file, FileCorrupt }
                      /\ log' = [ log EXCEPT ![t] = @ \o << "build", "write_failed" >> ]
                      /\ pc' = [ pc EXCEPT ![t] = "raised_init" ]
       ELSE /\ UNCHANGED << self, index_file >>
            /\ log' = [ log EXCEPT ![t] = Append(@, "build_skipped") ]
            /\ pc' = [ pc EXCEPT ![t] = "init_return" ]
    /\ UNCHANGED << csv, api_key, rag_pipeline, loc, nConstructed, nRequests,
                    filterVars, retrVars >>

\* _load_faiss_index: encode the passages and call _create_faiss_index, in
\* the except clause or in the else branch; an exception raised by encode or
\* by faiss.write_index is caught nowhere and leaves home_view
IndexBuild(t) ==
    /\ pc[t] = "init_build"
    /\ IF self[t].data # <<>> /\ self[t].model
       THEN \E outcome \in { "ok", "encode_raises", "write_raises" } :
               CASE outcome = "ok" ->
                      LET index == BuildIndex(EncodeAll(self[t].data))
                      IN  /\ self' = [ self EXCEPT ![t].index = index ]
                          /\ index_file' = WriteIndex(index)
                          /\ log' = [ log EXCEPT ![t] = @ \o << "build", "write" >> ]
                          /\ pc' = [ pc EXCEPT ![t] = "init_return" ]
                 [] outcome = "encode_raises" ->
                      /\ UNCHANGED << self, index_file >>
                      /\ log' = [ log EXCEPT ![t] = Append(@, "build_failed") ]
                      /\ pc' = [ pc EXCEPT ![t] = "raised_init" ]
                 [] outcome = "write_raises" ->
                      /\ self' = self
                      /\ index_file' \in { index_file, FileCorrupt }
                      /\ log' = [ log EXCEPT ![t] = @ \o << "build", "write_failed" >> ]
                      /\ pc' = [ pc EXCEPT ![t] = "raised_init" ]
       ELSE /\ UNCHANGED << self, index_file >>
            /\ log' = [ log EXCEPT ![t] = Append(@, "build_skipped") ]
            /\ pc' = [ pc EXCEPT ![t] = "init_return" ]
    /\ UNCHANGED << csv, api_key, rag_pipeline, loc, nConstructed, nRequests,
                    filterVars, retrVars >>

\* __init__ returns; load_rag_components_once assigns _rag_pipeline and
\* returns it to home_view
InitReturn(t) ==
    /\ pc[t] = "init_return"
    /\ rag_pipeline' = self[t]
    /\ loc' = [ loc EXCEPT ![t].rag_pipeline = self[t] ]
    /\ pc' = [ pc EXCEPT ![t] = "view" ]
    /\ UNCHANGED << csv, index_file, api_key, self, log, nConstructed, nRequests,
                    filterVars, retrVars >>

\* home_view step 2: the context and the system prompt for the persona;
\* AGENT_CONFIGS.get of an unknown persona is None and None.get(...) raises
SelectContext(selected_agent_id, retrieved_chunks) ==
    IF selected_agent_id # "general_news"
    THEN LET specialized_context ==
                 get_specialized_context_for_agent(selected_agent_id, retrieved_chunks, TopN)
         IN  IF HasAgent(selected_agent_id)
             THEN [ specialized_context |-> specialized_context,
                    system_prompt |-> AGENT_CONFIGS[selected_agent_id].system_prompt,
                    raised |-> FALSE ]
             ELSE [ specialized_context |-> specialized_context,
                    system_prompt |-> PromptNone,
                    raised |-> TRUE ]
    ELSE [ specialized_context |-> Take(retrieved_chunks, TopN),
           system_prompt |-> AGENT_CONFIGS["general_news"].system_prompt,
           raised |-> FALSE ]

\* home_view step 3: the fallback message, or generate_answer_with_llm
AnswerFor(key, specialized_context, system_prompt, llm) ==
    IF specialized_context = <<>>
    THEN [ answer |-> Fallback, calls |-> 0, raised |-> FALSE, llm_outcome |-> "none" ]
    ELSE LET r == generate_answer_with_llm(key, specialized_context, system_prompt, llm)
         IN  [ answer |-> r.answer, calls |-> r.calls, raised |-> r.raised,
               llm_outcome |-> IF r.calls > 0 THEN llm ELSE "none" ]

\* the body of home_view after load_rag_components_once has returned p: the
\* locals when the function returns or raises.  The body reads the request,
\* the settings and the pipeline it was given and writes only its locals.
home_view(p, key, method, agent, query, search, llm) ==
    LET selected_agent_id == IF agent = NotPosted THEN "general_news" ELSE agent
        user_query == Strip(query)
        read == [ NoLocals EXCEPT !.rag_pipeline = p, !.method = method,
                                  !.selected_agent_id = selected_agent_id,
                                  !.user_query = user_query ]
    IN  IF ~(method = "POST" /\ user_query # <<>>)
        THEN [ read EXCEPT !.status = "done" ]
        ELSE LET retrieved_chunks == retrieve_relevant_chunks(p, search)
                 sel == SelectContext(selected_agent_id, retrieved_chunks)
                 got == [ read EXCEPT !.retrieved_chunks = retrieved_chunks,
                                      !.specialized_context = sel.specialized_context,
                                      !.system_prompt = sel.system_prompt ]
             IN  IF sel.raised
                 THEN [ got EXCEPT !.status = "raised" ]
                 ELSE LET r == AnswerFor(key, sel.specialized_context,
                                         sel.system_prompt, llm)
                      IN  [ got EXCEPT !.answer = r.answer, !.llm_calls = r.calls,
                                       !.llm_outcome = r.llm_outcome,
                                       !.status = IF r.raised THEN "raised" ELSE "done" ]

\* home_view runs from the return of load_rag_components_once to its end
HomeView(t) ==
    /\ pc[t] = "view"
    /\ \E request \in Requests,
          search \in HomeOutcomes(loc[t].rag_pipeline, TopK), llm \in LlmOutcomes :
          \E l \in { home_view(loc[t].rag_pipeline, api_key, request.method,
                                request.agent_persona, request.user_query, search, llm) } :
              /\ loc' = [ loc EXCEPT ![t] = l ]
              /\ pc' = [ pc EXCEPT ![t] =
                           IF l.status = "raised" THEN "raised_view" ELSE "done" ]
    /\ UNCHANGED << csv, index_file, api_key, rag_pipeline, self, log,
                    nConstructed, nRequests,
                    filterVars, retrVars >>

Next ==
    \/ \E t \in Threads : EnterConstruct(t)
    \/ \E t \in Threads : EnterReuse(t)
    \/ \E t \in Threads : LoadDataStage(t)
    \/ \E t \in Threads : LoadModelStage(t)
    \/ \E t \in Threads : IndexExists(t)
    \/ \E t \in Threads : IndexRead(t)
    \/ \E t \in Threads : IndexBuild(t)
    \/ \E t \in Threads : InitReturn(t)
    \/ \E t \in Threads : HomeView(t)

Spec == Init /\ [][Next]_vars

(* --------------- the persona filter as a function of its inputs -------- *)
\* every sequence over S of length at most n
SeqsUpTo(S, n) == UNION { [1..m -> S] : m \in 0..n }

ChunkLists == SeqsUpTo({ [ chunk_text |-> text ] : text \in Texts }, MaxChunks)

InitFilter ==
    /\ MainIdle /\ RetrIdle
    /\ fAgent \in AgentIds \cup { "sports" }
    /\ fChunks \in ChunkLists
    /\ fTopN \in 0..MaxTopN
    /\ fResult = <<>> /\ fDone = FALSE

CallFilter ==
    /\ ~fDone
    /\ fResult' = get_specialized_context_for_agent(fAgent, fChunks, fTopN)
    /\ fDone' = TRUE
    /\ UNCHANGED << mainVars, retrVars, fAgent, fChunks, fTopN >>

SpecFilter == InitFilter /\ [][CallFilter]_vars

(* ------------------ retrieval as a function of its inputs -------------- *)
\* pipelines in any state of initialisation; a loaded index may hold any
\* number of vectors, whatever the corpus
RetrievePipelines ==
    { [ id |-> 1, data |-> data, model |-> model, index |-> index ] :
        data \in SeqsUpTo(Texts, 2), model \in BOOLEAN,
        index \in { NoIndex } \cup
                  { BuildIndex(Take(StaleVecs \o StaleVecs, n)) : n \in 1..MaxVectors } }

InitRetrieve ==
    /\ MainIdle /\ FilterIdle
    /\ rPipe \in RetrievePipelines
    /\ rK \in 1..MaxK
    /\ rOutcome = [ raised |-> TRUE, I |-> <<>> ]
    /\ rResult = <<>> /\ rDone = FALSE

CallRetrieve ==
    /\ ~rDone
    /\ \E outcome \in SearchOutcomes(rPipe, rK) :
          /\ rOutcome' = outcome
          /\ rResult' = retrieve_relevant_chunks(rPipe, outcome)
    /\ rDone' = TRUE
    /\ UNCHANGED << mainVars, filterVars, rPipe, rK >>

SpecRetrieve == InitRetrieve /\ [][CallRetrieve]_vars

(* ------------------------------ properties ----------------------------- *)
\* the elements of a sequence
Range(s) == { s[i] : i \in 1..Len(s) }

\* thread t's request was a POST with a non-blank query and got past retrieval
Processed(t) ==
    /\ pc[t] \in { "done", "raised_view" }
    /\ loc[t].method = "POST" /\ loc[t].user_query # <<>>

\* C1: while the singleton is uninitialized, at most one caller runs the
\* RAGPipeline constructor at a time, and all callers that hold a pipeline
\* hold the same instance
C1_SingleBuilder ==
    /\ Cardinality({ t \in Threads : pc[t] \in InitPcs }) <= 1
    /\ \A t, u \in Threads :
          (loc[t].rag_pipeline # NoPipeline /\ loc[u].rag_pipeline # NoPipeline)
             => loc[t].rag_pipeline.id = loc[u].rag_pipeline.id

\* a stage of thread t's constructor has failed
StageFailed(t) ==
    Range(log[t]) \cap { "corpus_failed", "model_failed", "read_failed",
                         "build_failed", "write_failed" } # {}

\* C2: a failed initialization raises nothing into home_view, leaves the
\* singleton set so that no later request initializes again, and a pipeline
\* that is not Ready retrieves the empty list
C2_FailedInitIsTerminal ==
    \A t \in Threads :
       /\ pc[t] # "raised_init"
       /\ (StageFailed(t) /\ pc[t] \notin InitPcs) => rag_pipeline # NoPipeline
       /\ (Processed(t) /\ ~Ready(loc[t].rag_pipeline))
             => loc[t].retrieved_chunks = <<>>

\* C3: a Ready pipeline has as many index vectors as passages
C3_IndexMatchesCorpus ==
    \A t \in Threads :
       Ready(loc[t].rag_pipeline)
          => Len(loc[t].rag_pipeline.index.vecs) = Len(loc[t].rag_pipeline.data)

\* C4: a processed request whose persona is not a configured key ends
\* without raising, with the general persona's system prompt and the first
\* 3 retrieved chunks as context
C4_UnknownPersonaAsGeneral ==
    \A t \in Threads :
       (Processed(t) /\ loc[t].selected_agent_id \notin AgentIds)
          => /\ pc[t] = "done"
             /\ loc[t].system_prompt = AGENT_CONFIGS["general_news"].system_prompt
             /\ loc[t].specialized_context = Take(loc[t].retrieved_chunks, 3)

\* C5: the step that ends the index stage of a constructor without raising
\* has either found no file, built the index from the passages and saved
\* it; or read a readable file and built and written nothing; or failed to
\* read the file, rebuilt the index and overwritten the file; after a build
\* the file on disk is the index of the current passages
C5_LoadOrBuild ==
    [][ \A t \in Threads :
          (pc[t] \in { "init_read", "init_build" } /\ pc'[t] = "init_return") =>
             LET lg == log'[t]
                 built == BuildIndex(EncodeAll(self'[t].data))
             IN  /\ Len(lg) >= 4 /\ lg[1] = "corpus" /\ lg[2] = "model"
                 /\ \/ /\ lg = << "corpus", "model", "absent", "build", "write" >>
                       /\ self'[t].index = built
                       /\ index_file' = [ kind |-> "valid", vecs |-> built.vecs ]
                    \/ /\ lg = << "corpus", "model", "exists", "read" >>
                       /\ index_file.kind = "valid"
                       /\ self'[t].index = [ kind |-> "index", vecs |-> index_file.vecs ]
                       /\ index_file' = index_file
                    \/ /\ lg = << "corpus", "model", "exists", "read_failed",
                                  "build", "write" >>
                       /\ self'[t].index = built
                       /\ index_file' = [ kind |-> "valid", vecs |-> built.vecs ]
                 /\ Ready(self'[t])
      ]_vars

\* C5 witness: a constructor found an unreadable file, rebuilt and overwrote it
C5_Witness ==
    \E t \in Threads :
       /\ pc[t] = "done" /\ Ready(self[t])
       /\ "read_failed" \in Range(log[t]) /\ "write" \in Range(log[t])
       /\ index_file.kind = "valid"

\* C7: a processed request with an empty context makes no LLM call and
\* answers with the fallback message; a request makes at most one LLM call,
\* and only with a non-empty context
C7_EmptyContextFallback ==
    \A t \in Threads :
       Processed(t)
          => /\ loc[t].specialized_context = <<>>
                   => (loc[t].llm_calls = 0 /\ loc[t].answer = Fallback)
             /\ loc[t].llm_calls <= 1
             /\ loc[t].llm_calls = 1 => loc[t].specialized_context # <<>>

\* home_view called generate_answer_with_llm in thread t's request
Generated(t) ==
    /\ Processed(t)
    /\ loc[t].system_prompt # PromptNone
    /\ loc[t].specialized_context # <<>>

\* C9: generate_answer_with_llm returns text and never raises: with an
\* empty or unset credential (None, '' or the settings placeholder) the
\* configuration-error message and no LLM call; otherwise exactly one LLM
\* call, whose failure gives the error text
C9_GenerateReturnsText ==
    \A t \in Threads :
       Generated(t)
          => /\ pc[t] = "done"
             /\ loc[t].answer \in { ConfigError, LlmAnswer, LlmError }
             /\ api_key \in { KeyNone, "", KeyPlaceholder }
                   => (loc[t].answer = ConfigError /\ loc[t].llm_calls = 0)
             /\ api_key \notin { KeyNone, "", KeyPlaceholder }
                   => /\ loc[t].llm_calls = 1
                      /\ loc[t].llm_outcome = "ok" => loc[t].answer = LlmAnswer
                      /\ loc[t].llm_outcome # "ok" => loc[t].answer = LlmError

\* C9 witness: the one LLM call of a request failed and the error text came back
C9_Witness ==
    \E t \in Threads :
       /\ Generated(t) /\ loc[t].llm_outcome = "raises"
       /\ loc[t].llm_calls = 1 /\ loc[t].answer = LlmError

\* C10: the constructor runs corpus load, model load and index stage in this
\* order; after a failed corpus load nothing else runs, and after a failed
\* model load the index is neither looked for, read, built nor written
C10_StagesInOrder ==
    \A t \in Threads :
       LET lg == log[t]
           IndexEvents == { "absent", "exists", "read", "read_failed", "build",
                            "build_failed", "write", "write_failed", "build_skipped" }
       IN  /\ Len(lg) >= 1 => lg[1] \in { "corpus", "corpus_failed" }
           /\ Len(lg) >= 2 => (lg[1] = "corpus" /\ lg[2] \in { "model", "model_failed" })
           /\ \A i \in 1..Len(lg) :
                 lg[i] \in IndexEvents => (i >= 3 /\ lg[1] = "corpus" /\ lg[2] = "model")
           /\ (pc[t] \notin InitPcs /\ Range(lg) \cap { "corpus_failed", "model_failed" } # {})
                 => (self[t].index = NoIndex /\ Range(lg) \cap IndexEvents = {})
           /\ "corpus_failed" \in Range(lg) => ~self[t].model

\* C10 witness: a constructor whose corpus load failed has returned
C10_Witness ==
    \E t \in Threads :
       /\ pc[t] = "done" /\ log[t] = << "corpus_failed" >>
       /\ index_file.kind = "valid"

(* properties of the persona filter, under SpecFilter *)
\* C8: for a configured persona the filter returns chunks[:top_n] when the
\* persona has no keywords, and otherwise the first top_n of the chunks
\* whose lower-cased text contains a lower-cased keyword, in their order
C8_FilterEqualsReference ==
    (fDone /\ fAgent \in AgentIds) =>
       LET kws == AGENT_CONFIGS[fAgent].keywords_for_filtering
           Keep(chunk) ==
               \E j \in 1..Len(kws) :
                  Contains(Lower(Chars(chunk.chunk_text)), Lower(kws[j]))
           kept == SelectSeq(fChunks, Keep)
       IN  IF kws = <<>>
           THEN fResult = SubSeq(fChunks, 1, Min(fTopN, Len(fChunks)))
           ELSE fResult = SubSeq(kept, 1, Min(fTopN, Len(kept)))

\* C8 witness: a keyword persona dropped a chunk that matches no keyword,
\* kept one whose match needs lower-casing, and truncated to top_n
C8_Witness ==
    /\ fDone /\ fAgent = "public_transport"
    /\ fChunks = << [ chunk_text |-> TextLake ], [ chunk_text |-> TextBus ],
                    [ chunk_text |-> TextMetro ] >>
    /\ fTopN = 1
    /\ fResult = << [ chunk_text |-> TextBus ] >>

(* properties of retrieval, under SpecRetrieve *)
\* C6: in the Ready state retrieval returns at most k chunks, and when the
\* search returns its labels the chunks are the passages at the labels
\* within 0..len(passages)-1, in the order of the labels
C6_RetrieveMapsSearch ==
    (rDone /\ Ready(rPipe)) =>
       /\ Len(rResult) <= rK
       /\ ~rOutcome.raised =>
             LET valid == SelectSeq(rOutcome.I,
                                    LAMBDA x : x \in 0..(Len(rPipe.data) - 1))
             IN  /\ Len(rResult) = Len(valid)
                 /\ \A i \in 1..Len(valid) :
                       rResult[i] = [ chunk_text |-> rPipe.data[valid[i] + 1] ]

\* C6 witness: the search returned a position beyond the corpus between two
\* positions within it, and the two passages came back in search order
C6_Witness ==
    /\ rDone /\ Ready(rPipe) /\ ~rOutcome.raised
    /\ Len(rPipe.data) = 2 /\ rPipe.data[1] # rPipe.data[2]
    /\ rK = 3 /\ rOutcome.I = << 1, 2, 0 >>
    /\ rResult = << [ chunk_text |-> rPipe.data[2] ], [ chunk_text |-> rPipe.data[1] ] >>
====
